---- MODULE Spec2Model ----
(***************************************************************************)
(* Model of tokenizer.py: the File Counter (count_tokens_in_file), the     *)
(* Directory Walker (process_directory), the Repository Processor          *)
(* (process_repository), the Batch Orchestrator                            *)
(* (process_multiple_repositories) and the command surface (main) for the  *)
(* --file, --directory and --celestia-repos modes.                         *)
(*                                                                         *)
(* The tokenizer, the git client and the file system are external: a file  *)
(* carries the outcome of reading it and the tokenizer's count for its     *)
(* content, a clone either raises or yields a directory content, a write   *)
(* either raises or succeeds.                                              *)
(***************************************************************************)
EXTENDS Integers, Sequences, FiniteSets, TLC

VARIABLES
    args,             \* the parsed command line
    pc,               \* position of the (single) thread of control
    call,             \* the last count_tokens_in_file call: its path and outcome
    root,             \* the directory process_directory is walking
    todo,             \* files the glob loops of process_directory have still to yield
    results,          \* the results dict of process_directory
    tmpdirs,          \* temporary directories that exist on disk
    repo_results,     \* what process_repository returned to the batch loop
    idx,              \* position of the batch loop in repo_urls
    meta_index_data,  \* the combined index being built
    reports,          \* repo_results of every finished iteration, as left by the loop body
    disk,             \* repository_data/<name>.json, by repository name
    main_ret,         \* value returned by main()
    exit_code         \* exit status of the process

vars == <<args, pc, call, root, todo, results, tmpdirs, repo_results, idx,
          meta_index_data, reports, disk, main_ret, exit_code>>

(***************************************************************************)
(* Bounds                                                                  *)
(***************************************************************************)
MaxTok == 1
MaxDirFiles == 2
MaxRepos == 2

(***************************************************************************)
(* Values                                                                  *)
(***************************************************************************)
None == [none |-> TRUE]

NoExc == [cls |-> "none", msg |-> ""]

Exc(cls, msg) == [cls |-> cls, msg |-> msg]

\* str(e)
Str(e) == e.msg

\* Optional[str]: None is <<>>, a string s is <<s>>
NoneStr == <<>>

SomeStr(s) == <<s>>

\* Python truthiness of an Optional[str]
Truthy(o) == o # NoneStr /\ o[1] # ""

\* dict.get(key, default)
Get(d, key, default) == IF key \in DOMAIN d THEN d[key] ELSE default

\* sum of f[x] over x in S, f a function (a dict or a list)
RECURSIVE Sum(_, _)
Sum(f, S) ==
    IF S = {} THEN 0
    ELSE LET x == CHOOSE y \in S : TRUE IN f[x] + Sum(f, S \ {x})

RECURSIVE SeqsUpTo(_, _)
SeqsUpTo(S, n) ==
    IF n = 0 THEN {<<>>}
    ELSE LET shorter == SeqsUpTo(S, n - 1)
         IN shorter \cup {Append(s, x) : s \in {t \in shorter : Len(t) = n - 1}, x \in S}

(***************************************************************************)
(* Files and paths                                                         *)
(***************************************************************************)
\* the allow-list of count_tokens_in_file
SupportedExtensions == {".go", ".md", ".rs", ".sol"}

\* the glob patterns of process_directory, in loop order
Patterns == <<".go", ".md", ".rs", ".sol">>

\* str.lower() on the suffixes that occur
Lower(ext) ==
    CASE ext = ".GO" -> ".go"
      [] ext = ".Md" -> ".md"
      [] ext = ".RS" -> ".rs"
      [] OTHER -> ext

\* outcomes of open()/read()/tokenize that count_tokens_in_file absorbs
Absorbed == {"UnicodeDecodeError", "PermissionError"}

\* outcomes it does not catch, with str(e)
FatalMsg(cls) == IF cls = "MemoryError" THEN "" ELSE "Input/output error"

Fatal == {"MemoryError", "OSError"}

\* A path: whether it exists, whether it is a regular file, its suffix as
\* written, the outcome of reading it, the tokenizer's count of its content.
File(ext, read, tokens) ==
    [exists |-> TRUE, is_file |-> TRUE, ext |-> ext, read |-> read, tokens |-> tokens]

Missing(ext) ==
    [exists |-> FALSE, is_file |-> FALSE, ext |-> ext, read |-> "ok", tokens |-> 0]

SubDir(ext) ==
    [exists |-> TRUE, is_file |-> FALSE, ext |-> ext, read |-> "ok", tokens |-> 0]

PathExts == {".go", ".GO", ".md", ".Md", ".rs", ".RS", ".sol", ".txt", ""}

\* what --file may name
FilePaths ==
    {Missing(e) : e \in PathExts}
    \cup {File(e, "ok", n) : e \in PathExts, n \in 0..MaxTok}
    \cup {File(e, r, 0) : e \in PathExts, r \in Absorbed \cup Fatal}

\* what a directory tree may hold
DirEntries ==
    {File(e, "ok", n) : e \in SupportedExtensions, n \in 0..MaxTok}
    \cup {File(e, r, 0) : e \in SupportedExtensions, r \in Absorbed \cup Fatal}
    \cup {File(".txt", "ok", 1), File(".GO", "ok", 1), SubDir(".go")}

\* A directory: its entries; an entry's relative path is its position.
Directory(content) == [exists |-> TRUE, is_dir |-> TRUE, content |-> content]

NoDirectory == [exists |-> FALSE, is_dir |-> FALSE, content |-> <<>>]

NotADirectory == [exists |-> TRUE, is_dir |-> FALSE, content |-> <<>>]

Directories ==
    {NoDirectory, NotADirectory}
    \cup {Directory(c) : c \in SeqsUpTo(DirEntries, MaxDirFiles)}

(***************************************************************************)
(* count_tokens_in_text, count_tokens_in_file                              *)
(***************************************************************************)
\* the external tokenizer's count of a file's content
count_tokens_in_text(p) == p.tokens

Returned(count, extension, opened) ==
    [raised |-> FALSE, exc |-> NoExc, count |-> count, extension |-> extension,
     opened |-> opened]

Raised(e, opened) ==
    [raised |-> TRUE, exc |-> e, count |-> 0, extension |-> "", opened |-> opened]

count_tokens_in_file_ExtensionFirst(p) ==
    LET extension == Lower(p.ext) IN
    IF extension \notin SupportedExtensions THEN Returned(0, extension, FALSE)
    ELSE IF ~p.exists THEN Raised(Exc("FileNotFoundError", "File not found"), FALSE)
    ELSE IF p.read = "ok" THEN Returned(count_tokens_in_text(p), extension, TRUE)
    ELSE IF p.read \in Absorbed THEN Returned(0, extension, TRUE)
    ELSE Raised(Exc(p.read, FatalMsg(p.read)), TRUE)

count_tokens_in_file(p) ==
    IF ~p.exists THEN Raised(Exc("FileNotFoundError", "File not found"), FALSE)
    ELSE LET extension == Lower(p.ext) IN
         IF extension \notin SupportedExtensions THEN Returned(0, extension, FALSE)
         ELSE IF p.read = "ok" THEN Returned(count_tokens_in_text(p), extension, TRUE)
         ELSE IF p.read \in Absorbed THEN Returned(0, extension, TRUE)
         ELSE Raised(Exc(p.read, FatalMsg(p.read)), TRUE)

(***************************************************************************)
(* process_directory                                                       *)
(***************************************************************************)
Bucket(files, tokens) == [files |-> files, tokens |-> tokens]

EmptyBuckets_GoMdOnly == [e \in {".go", ".md"} |-> Bucket(0, 0)]

\* the by_extension dict of a fresh results
EmptyBuckets == [e \in SupportedExtensions |-> Bucket(0, 0)]

InitialResults ==
    [directory |-> "path", total_files |-> 0, total_tokens |-> 0,
     by_extension |-> EmptyBuckets, files |-> <<>>]

\* path.glob('**/*' + suffix) on a case-sensitive file system: the positions
\* whose name ends in the suffix, in listing order
RECURSIVE GlobFrom(_, _, _)
GlobFrom(content, suffix, i) ==
    IF i > Len(content) THEN <<>>
    ELSE (IF content[i].ext = suffix THEN <<i>> ELSE <<>>)
         \o GlobFrom(content, suffix, i + 1)

Glob(content, suffix) == GlobFrom(content, suffix, 1)

\* the files the two nested for loops visit, in order
RECURSIVE GlobAllFrom(_, _)
GlobAllFrom(content, k) ==
    IF k > Len(Patterns) THEN <<>>
    ELSE Glob(content, Patterns[k]) \o GlobAllFrom(content, k + 1)

GlobAll(content) == GlobAllFrom(content, 1)

Recorded_NonNegative(token_count) == token_count >= 0

\* "if token_count > 0"
Recorded(token_count) == token_count > 0

FileRecord(path, extension, tokens) ==
    [path |-> path, extension |-> extension, tokens |-> tokens]

\* the body of the inner loop for a file whose count_tokens_in_file returned c
Accumulate(r, path, c) ==
    IF ~Recorded(c.count) THEN r
    ELSE [r EXCEPT
            !.total_files = @ + 1,
            !.total_tokens = @ + c.count,
            !.by_extension =
                IF c.extension \in DOMAIN @
                THEN [@ EXCEPT ![c.extension] =
                        Bucket(@.files + 1, @.tokens + c.count)]
                ELSE @,
            !.files = Append(@, FileRecord(path, c.extension, c.count))]

(***************************************************************************)
(* clone_repository, process_repository                                    *)
(***************************************************************************)
\* A repository URL: its '/'-separated segments, each a sequence of pieces;
\* ".git" is a piece of its own.
UrlApp == << <<"celestiaorg">>, <<"celestia-app", ".git">> >>

UrlFork == << <<"fork">>, <<"celestia-app">> >>

UrlNode == << <<"celestiaorg">>, <<"celestia-node", ".git">> >>

RepoUrls == {UrlApp, UrlFork, UrlNode}

\* repo_url.split('/')[-1].replace('.git', '')
RepoName(url) == SelectSeq(url[Len(url)], LAMBDA piece : piece # ".git")

RepoNames == {RepoName(u) : u \in RepoUrls}

\* what git.Repo.clone_from may raise
CloneErrors == {Exc("GitCommandError", "Cmd('git') failed")}

\* what a clone may bring: an empty tree, single files, files of several
\* extensions, an undecodable file next to a good one, files whose reading
\* fails with an exception count_tokens_in_file does not catch
RepoContents ==
    { <<>>,
      <<File(".go", "ok", 1)>>,
      <<File(".md", "ok", MaxTok), File(".go", "ok", 1), File(".txt", "ok", 1)>>,
      <<File(".rs", "UnicodeDecodeError", 0), File(".sol", "ok", 1)>>,
      <<File(".go", "ok", 1), File(".md", "MemoryError", 0)>>,
      <<File(".rs", "OSError", 0)>> }

\* the classes that occur; all derive from Exception
ExceptionClasses ==
    {"FileNotFoundError", "ValueError", "GitCommandError", "MemoryError", "OSError"}

Catches_GitCommandErrorOnly(e) == e.cls = "GitCommandError"

\* "except Exception as e" of process_repository
Catches(e) == e.cls \in ExceptionClasses

TemporaryDirectoryExit_Leak(dirs, d) == dirs

\* leaving "with tempfile.TemporaryDirectory()"
TemporaryDirectoryExit(dirs, d) == dirs \ {d}

Repository(name, url) == [name |-> name, url |-> url]

FailureReport_NoCounts(name, url, e) ==
    [repository |-> Repository(name, url), error |-> Str(e)]

\* the dict returned by the except clause
FailureReport(name, url, e) ==
    [repository |-> Repository(name, url), error |-> Str(e),
     total_files |-> 0, total_tokens |-> 0]

\* results with 'directory' replaced and 'repository' added
SuccessReport(r, name, url) ==
    [directory |-> name, total_files |-> r.total_files,
     total_tokens |-> r.total_tokens, by_extension |-> r.by_extension,
     files |-> r.files, repository |-> Repository(name, url)]

(***************************************************************************)
(* process_multiple_repositories                                           *)
(***************************************************************************)
InitialMetaIndex(repo_urls) ==
    [summary |->
        [total_repositories_configured |-> Len(repo_urls),
         successful_repositories_processed |-> 0,
         total_files_across_all_repos |-> 0,
         total_tokens_across_all_repos |-> 0,
         by_extension_across_all_repos |-> EmptyBuckets],
     repositories |-> <<>>]

\* what writing a file may raise
SaveErrors == {Exc("OSError", "No space left on device")}

\* repo_results['error'] = repo_results.get('error', '') + "; Failed to save ..."
WithSaveError(r, e) ==
    [directory |-> r.directory, total_files |-> r.total_files,
     total_tokens |-> r.total_tokens, by_extension |-> r.by_extension,
     files |-> r.files, repository |-> r.repository,
     error |-> Get(r, "error", "") \o "; Failed to save individual JSON: " \o Str(e)]

\* repo_summary_for_meta
RepoSummary(r, name, url) ==
    [name |-> name, url |-> url, data_file |-> name,
     total_files |-> Get(r, "total_files", 0),
     total_tokens |-> Get(r, "total_tokens", 0),
     by_extension |-> Get(r, "by_extension", <<>>),
     error |-> IF "error" \in DOMAIN r THEN SomeStr(r.error) ELSE NoneStr]

IsSuccessful_Always(entry) == TRUE

\* "if not repo_summary_for_meta['error']"
IsSuccessful(entry) == ~Truthy(entry.error)

\* the update of the overall summary
Fold(summary, entry) ==
    IF ~IsSuccessful(entry) THEN summary
    ELSE [summary EXCEPT
            !.successful_repositories_processed = @ + 1,
            !.total_files_across_all_repos = @ + entry.total_files,
            !.total_tokens_across_all_repos = @ + entry.total_tokens,
            !.by_extension_across_all_repos =
                [ext \in DOMAIN @ |->
                    IF ext \in DOMAIN entry.by_extension
                    THEN Bucket(@[ext].files + Get(entry.by_extension[ext], "files", 0),
                                @[ext].tokens + Get(entry.by_extension[ext], "tokens", 0))
                    ELSE @[ext]]]

\* "main()" as the module's last statement: the value main returns is dropped
ModuleMain(ret) == 0

(***************************************************************************)
(* The program                                                             *)
(***************************************************************************)
Args ==
    [mode : {"file"}, file : FilePaths]
    \cup [mode : {"directory"}, directory : Directories]
    \cup [mode : {"batch"}, repo_file_found : BOOLEAN, output : BOOLEAN,
          repo_urls : SeqsUpTo(RepoUrls, MaxRepos)]

Init ==
    /\ args \in Args
    /\ pc = "main"
    /\ call = None
    /\ root = None
    /\ todo = <<>>
    /\ results = None
    /\ tmpdirs = {}
    /\ repo_results = None
    /\ idx = 0
    /\ meta_index_data = None
    /\ reports = <<>>
    /\ disk = [n \in RepoNames |-> None]
    /\ main_ret = <<>>
    /\ exit_code = -1

\* sys.exit(code), or an exception no handler of main catches
Exit(code) ==
    /\ pc' = "exited"
    /\ exit_code' = code

\* main, --file
MainFile ==
    /\ pc = "main"
    /\ args.mode = "file"
    /\ LET c == count_tokens_in_file(args.file) IN
        /\ call' = [path |-> args.file, result |-> c]
        /\ Exit(IF c.raised THEN 1 ELSE 0)
    /\ UNCHANGED <<args, root, todo, results, tmpdirs, repo_results, idx,
                   meta_index_data, reports, disk, main_ret>>

\* main, --directory: the call of process_directory
MainDirectory ==
    /\ pc = "main"
    /\ args.mode = "directory"
    /\ root' = args.directory
    /\ pc' = "pd_enter"
    /\ UNCHANGED <<args, call, todo, results, tmpdirs, repo_results, idx,
                   meta_index_data, reports, disk, main_ret, exit_code>>

\* An exception e leaves process_directory or clone_repository. Under
\* --directory main prints it and exits 1 (or it is uncaught). In a batch the
\* except clause of process_repository turns it into a failure report; an
\* exception it does not catch leaves the with block, which removes the
\* temporary directory, and reaches the handler of main.
RaiseInScan(e) ==
    IF args.mode = "directory"
    THEN /\ Exit(1)
         /\ UNCHANGED <<repo_results, tmpdirs>>
    ELSE IF Catches(e)
    THEN /\ repo_results' =
                FailureReport(RepoName(args.repo_urls[idx]), args.repo_urls[idx], e)
         /\ pc' = "pr_exit"
         /\ UNCHANGED <<tmpdirs, exit_code>>
    ELSE /\ tmpdirs' = TemporaryDirectoryExit(tmpdirs, idx)
         /\ Exit(1)
         /\ UNCHANGED repo_results

\* process_directory up to the loops
PD_Enter ==
    /\ pc = "pd_enter"
    /\ IF ~root.exists
       THEN /\ RaiseInScan(Exc("FileNotFoundError", "Directory not found"))
            /\ UNCHANGED <<results, todo>>
       ELSE IF ~root.is_dir
       THEN /\ RaiseInScan(Exc("ValueError", "Path is not a directory"))
            /\ UNCHANGED <<results, todo>>
       ELSE /\ results' = InitialResults
            /\ todo' = GlobAll(root.content)
            /\ pc' = "pd_loop"
            /\ UNCHANGED <<repo_results, tmpdirs, exit_code>>
    /\ UNCHANGED <<args, call, root, idx, meta_index_data, reports, disk, main_ret>>

\* one iteration of the inner loop
PD_File ==
    /\ pc = "pd_loop"
    /\ todo # <<>>
    /\ LET path == Head(todo)
           f == root.content[path]
           c == count_tokens_in_file(f)
       IN IF ~f.is_file
          THEN /\ todo' = Tail(todo)
               /\ UNCHANGED <<call, results, pc, repo_results, tmpdirs, exit_code>>
          ELSE /\ call' = [path |-> f, result |-> c]
               /\ IF c.raised
                  THEN /\ RaiseInScan(c.exc)
                       /\ UNCHANGED <<results, todo>>
                  ELSE /\ results' = Accumulate(results, path, c)
                       /\ todo' = Tail(todo)
                       /\ UNCHANGED <<pc, repo_results, tmpdirs, exit_code>>
    /\ UNCHANGED <<args, root, idx, meta_index_data, reports, disk, main_ret>>

\* "return results", and in process_repository the lines up to its own return
PD_Return ==
    /\ pc = "pd_loop"
    /\ todo = <<>>
    /\ IF args.mode = "directory"
       THEN /\ pc' = "pd_done"
            /\ UNCHANGED repo_results
       ELSE /\ repo_results' =
                SuccessReport(results, RepoName(args.repo_urls[idx]), args.repo_urls[idx])
            /\ pc' = "pr_exit"
    /\ UNCHANGED <<args, call, root, todo, results, tmpdirs, idx, meta_index_data,
                   reports, disk, main_ret, exit_code>>

\* main, --directory: the report is printed
MainDirectoryReport ==
    /\ pc = "pd_done"
    /\ Exit(0)
    /\ UNCHANGED <<args, call, root, todo, results, tmpdirs, repo_results, idx,
                   meta_index_data, reports, disk, main_ret>>

\* main, --celestia-repos, up to the loop of process_multiple_repositories
MainBatch ==
    /\ pc = "main"
    /\ args.mode = "batch"
    /\ IF ~args.repo_file_found \/ ~args.output
       THEN /\ Exit(1)
            /\ UNCHANGED <<meta_index_data, idx>>
       ELSE /\ meta_index_data' = InitialMetaIndex(args.repo_urls)
            /\ idx' = 1
            /\ pc' = "pm_loop"
            /\ UNCHANGED exit_code
    /\ UNCHANGED <<args, call, root, todo, results, tmpdirs, repo_results,
                   reports, disk, main_ret>>

\* the loop calls process_repository, which enters its with block
PM_Call ==
    /\ pc = "pm_loop"
    /\ idx <= Len(args.repo_urls)
    /\ tmpdirs' = tmpdirs \cup {idx}
    /\ pc' = "pr_clone"
    /\ UNCHANGED <<args, call, root, todo, results, repo_results, idx,
                   meta_index_data, reports, disk, main_ret, exit_code>>

\* clone_repository raises
PR_CloneFails ==
    /\ pc = "pr_clone"
    /\ \E e \in CloneErrors : RaiseInScan(e)
    /\ UNCHANGED <<args, call, root, todo, results, idx, meta_index_data,
                   reports, disk, main_ret>>

\* clone_repository returns the path of the clone
PR_CloneOk ==
    /\ pc = "pr_clone"
    /\ \E c \in RepoContents : root' = Directory(c)
    /\ pc' = "pd_enter"
    /\ UNCHANGED <<args, call, todo, results, tmpdirs, repo_results, idx,
                   meta_index_data, reports, disk, main_ret, exit_code>>

\* process_repository returns through the end of its with block
PR_Exit ==
    /\ pc = "pr_exit"
    /\ tmpdirs' = TemporaryDirectoryExit(tmpdirs, idx)
    /\ root' = None
    /\ results' = None
    /\ call' = None
    /\ todo' = <<>>
    /\ pc' = "pm_fold"
    /\ UNCHANGED <<args, repo_results, idx, meta_index_data, reports, disk,
                   main_ret, exit_code>>

\* the rest of the loop body: save the detail file, append the summary, fold
PM_Fold ==
    /\ pc = "pm_fold"
    /\ \E save \in {NoExc} \cup SaveErrors :
        LET repo_url == args.repo_urls[idx]
            repo_name == Get(Get(repo_results, "repository", <<>>), "name", <<"unknown_repo">>)
            attempted == "error" \notin DOMAIN repo_results
            saved == attempted /\ save = NoExc
            r == IF attempted /\ save # NoExc
                 THEN WithSaveError(repo_results, save)
                 ELSE repo_results
            entry == RepoSummary(r, repo_name, repo_url)
        IN /\ (attempted \/ save = NoExc)
           /\ disk' = IF saved THEN [disk EXCEPT ![repo_name] = repo_results] ELSE disk
           /\ repo_results' = r
           /\ reports' = Append(reports, r)
           /\ meta_index_data' =
                [repositories |-> Append(meta_index_data.repositories, entry),
                 summary |-> Fold(meta_index_data.summary, entry)]
    /\ idx' = idx + 1
    /\ pc' = "pm_loop"
    /\ UNCHANGED <<args, call, root, todo, results, tmpdirs, main_ret, exit_code>>

\* "return meta_index_data"
PM_Return ==
    /\ pc = "pm_loop"
    /\ idx > Len(args.repo_urls)
    /\ pc' = "main_write"
    /\ UNCHANGED <<args, call, root, todo, results, tmpdirs, repo_results, idx,
                   meta_index_data, reports, disk, main_ret, exit_code>>

\* main, --celestia-repos: the index is written, the summary printed, main returns
MainBatchFinish ==
    /\ pc = "main_write"
    /\ \E written \in BOOLEAN :
        IF ~written
        THEN /\ Exit(1)
             /\ UNCHANGED main_ret
        ELSE LET ret ==
                    IF meta_index_data.summary.successful_repositories_processed > 0
                    THEN 0 ELSE 1
             IN /\ main_ret' = <<ret>>
                /\ Exit(ModuleMain(ret))
    /\ UNCHANGED <<args, call, root, todo, results, tmpdirs, repo_results, idx,
                   meta_index_data, reports, disk>>

Next ==
    \/ MainFile
    \/ MainDirectory
    \/ PD_Enter
    \/ PD_File
    \/ PD_Return
    \/ MainDirectoryReport
    \/ MainBatch
    \/ PM_Call
    \/ PR_CloneFails
    \/ PR_CloneOk
    \/ PR_Exit
    \/ PM_Fold
    \/ PM_Return
    \/ MainBatchFinish

Spec == Init /\ [][Next]_vars

(***************************************************************************)
(* Properties                                                              *)
(***************************************************************************)
FourBuckets == {".go", ".md", ".rs", ".sol"}

BucketFiles(r) == Sum([e \in DOMAIN r.by_extension |-> r.by_extension[e].files],
                      DOMAIN r.by_extension)

BucketTokens(r) == Sum([e \in DOMAIN r.by_extension |-> r.by_extension[e].tokens],
                       DOMAIN r.by_extension)

TotalsMatchBuckets(r) ==
    /\ DOMAIN r.by_extension = FourBuckets
    /\ r.total_files = BucketFiles(r)
    /\ r.total_tokens = BucketTokens(r)

\* C1: in every report of process_directory, while it is being built (after
\* each file) and when it is returned, total_files is the sum of the files of
\* the four extension buckets and total_tokens the sum of their tokens.
C1_TotalsEqualBucketSums ==
    /\ results # None => TotalsMatchBuckets(results)
    /\ (repo_results # None /\ "by_extension" \in DOMAIN repo_results)
            => TotalsMatchBuckets(repo_results)

\* C1 witness: mid-walk, one .rs file counted and more files to come.
C1_Witness ==
    /\ pc = "pd_loop"
    /\ todo # <<>>
    /\ results.total_files = 1
    /\ results.by_extension[".rs"] = Bucket(1, MaxTok)
    /\ results.total_tokens = MaxTok

\* the reports of the finished iterations that carry no error field
NoErrorReports == {i \in 1..Len(reports) : "error" \notin DOMAIN reports[i]}

\* C2: the aggregate fields of the batch summary are the sums of the
\* corresponding counts over exactly the reports that carry no error; reports
\* with an error add nothing.
C2_AggregateIsSumOverNoErrorReports ==
    meta_index_data # None =>
        LET s == meta_index_data.summary IN
        /\ s.total_files_across_all_repos =
                Sum([i \in NoErrorReports |-> reports[i].total_files], NoErrorReports)
        /\ s.total_tokens_across_all_repos =
                Sum([i \in NoErrorReports |-> reports[i].total_tokens], NoErrorReports)
        /\ DOMAIN s.by_extension_across_all_repos = FourBuckets
        /\ \A ext \in FourBuckets :
            /\ s.by_extension_across_all_repos[ext].files =
                    Sum([i \in NoErrorReports |-> reports[i].by_extension[ext].files],
                        NoErrorReports)
            /\ s.by_extension_across_all_repos[ext].tokens =
                    Sum([i \in NoErrorReports |-> reports[i].by_extension[ext].tokens],
                        NoErrorReports)

\* C2 witness: a finished batch of two repositories with files, one of which
\* carries an error and is left out of a non-zero aggregate.
C2_Witness ==
    /\ pc = "main_write"
    /\ Len(reports) = 2
    /\ "error" \in DOMAIN reports[1]
    /\ reports[1].total_files > 0
    /\ "error" \notin DOMAIN reports[2]
    /\ reports[2].total_files > 0
    /\ meta_index_data.summary.total_files_across_all_repos = reports[2].total_files

\* the batch run is over: process_multiple_repositories was entered and has
\* returned, or the process has ended
BatchOver == meta_index_data # None /\ pc \in {"main_write", "exited"}

\* C3: a failing repository never aborts the batch: once the run is over,
\* repositories[] has one entry per input URL, in input order, as many as
\* total_repositories_configured, and a repository whose report carries an
\* error is listed with that error.
C3_EveryUrlListed ==
    BatchOver =>
        LET repos == meta_index_data.repositories IN
        /\ Len(repos) = Len(args.repo_urls)
        /\ Len(repos) = meta_index_data.summary.total_repositories_configured
        /\ Len(reports) = Len(args.repo_urls)
        /\ \A i \in 1..Len(repos) :
            /\ repos[i].url = args.repo_urls[i]
            /\ "error" \in DOMAIN reports[i] => repos[i].error = SomeStr(reports[i].error)

\* C3 witness: the first repository failed and the second was still processed
\* and listed without error.
C3_Witness ==
    /\ pc = "main_write"
    /\ Len(args.repo_urls) = 2
    /\ meta_index_data.repositories[1].error # NoneStr
    /\ meta_index_data.repositories[1].total_files = 0
    /\ meta_index_data.repositories[2].error = NoneStr
    /\ meta_index_data.repositories[2].total_files > 0

\* C4: a batch run with --output that completes exits non-zero when no
\* repository was processed successfully, and zero only when at least one was.
C4_ExitCodeReflectsSuccess ==
    (pc = "exited" /\ args.mode = "batch" /\ main_ret # <<>>) =>
        (exit_code = 0 <=>
            meta_index_data.summary.successful_repositories_processed > 0)

\* process_repository has returned and the loop body has not yet touched its report
RepositoryReturned == pc \in {"pr_exit", "pm_fold"} /\ repo_results # None

SuccessFields ==
    {"directory", "total_files", "total_tokens", "by_extension", "files", "repository"}

\* C5 as stated: a failure report has every field of a success report, an
\* error string, and zero counts.
C5_FailureReportHasSuccessShape ==
    (RepositoryReturned /\ "error" \in DOMAIN repo_results) =>
        /\ SuccessFields \subseteq DOMAIN repo_results
        /\ repo_results.total_files = 0
        /\ repo_results.total_tokens = 0

\* C5 amended: a failure report holds exactly repository {name, url}, error
\* (the exception's message), total_files = 0 and total_tokens = 0; the
\* fields directory, by_extension and files of a success report are absent.
C5_FailureReportFields ==
    (RepositoryReturned /\ "error" \in DOMAIN repo_results) =>
        /\ DOMAIN repo_results = {"repository", "error", "total_files", "total_tokens"}
        /\ repo_results.total_files = 0
        /\ repo_results.total_tokens = 0
        /\ repo_results.repository.url = args.repo_urls[idx]
        /\ repo_results.repository.name = RepoName(args.repo_urls[idx])

\* C5 witness: a scan failed after a file had already been counted, and the
\* failure report carries zero counts.
C5_Witness ==
    /\ pc = "pr_exit"
    /\ "error" \in DOMAIN repo_results
    /\ results # None
    /\ results.total_files > 0
    /\ repo_results.total_files = 0

\* C6: after a batch run every entry of repositories[] points, through
\* data_file, at a written file that holds the report of that same repository.
C6_DataFileHoldsOwnReport ==
    BatchOver =>
        \A i \in 1..Len(meta_index_data.repositories) :
            LET entry == meta_index_data.repositories[i] IN
            /\ disk[entry.data_file] # None
            /\ disk[entry.data_file].repository.url = entry.url

\* C7: every entry of repositories[] whose error is a non-empty string has
\* total_files = 0 and total_tokens = 0.
C7_ErrorMeansZeroCounts ==
    meta_index_data # None =>
        \A i \in 1..Len(meta_index_data.repositories) :
            LET entry == meta_index_data.repositories[i] IN
            Truthy(entry.error) => entry.total_files = 0 /\ entry.total_tokens = 0

\* positions at which control is inside process_repository's with block
InWithBlock == pc \in {"pr_clone", "pd_enter", "pd_loop", "pr_exit"}

\* C8: a temporary clone directory exists only while process_repository is
\* running for its repository: never more than one exists, none exists once
\* process_repository has returned, and none when the run ends.
C8_TemporaryDirectoryScoped ==
    /\ Cardinality(tmpdirs) <= 1
    /\ \A d \in tmpdirs : InWithBlock /\ args.mode = "batch" /\ d = idx
    /\ pc \in {"pm_fold", "pm_loop", "main_write", "exited"} => tmpdirs = {}

\* C8 witness: process_repository has returned for the second repository on
\* its failure path, after the first returned on its success path.
C8_Witness ==
    /\ pc = "pm_fold"
    /\ idx = 2
    /\ "error" \in DOMAIN repo_results
    /\ "error" \notin DOMAIN reports[1]
    /\ tmpdirs = {}

AllowedAnyCase == {".go", ".GO", ".md", ".Md", ".rs", ".RS", ".sol"}

\* C9: count_tokens_in_file raises not-found for a path that does not exist,
\* whatever its extension; returns 0 without opening the file for an existing
\* path whose extension, case ignored, is outside the allow-list; returns 0
\* without raising for an allowed file whose reading fails with a decode or
\* permission error.
C9_FileCounterOutcomes ==
    call # None =>
        LET p == call.path
            r == call.result
        IN /\ ~p.exists => r.raised /\ r.exc.cls = "FileNotFoundError"
           /\ (p.exists /\ p.ext \notin AllowedAnyCase)
                => ~r.raised /\ r.count = 0 /\ ~r.opened
           /\ (p.exists /\ p.ext \in AllowedAnyCase
                    /\ p.read \in {"UnicodeDecodeError", "PermissionError"})
                => ~r.raised /\ r.count = 0

\* C9 witness: a missing path with an unsupported extension was counted and
\* the call raised.
C9_Witness ==
    /\ call # None
    /\ ~call.path.exists
    /\ call.path.ext = ".txt"
    /\ call.result.raised

\* process_directory has returned a report for the directory in root
WalkReturned ==
    \/ pc = "pd_done"
    \/ pc = "pr_exit" /\ root # None /\ "error" \notin DOMAIN repo_results

WalkReport == IF pc = "pd_done" THEN results ELSE repo_results

\* the files process_directory hands to the File Counter
Visited == {i \in 1..Len(root.content) :
                root.content[i].is_file /\ root.content[i].ext \in FourBuckets}

Positive(i) == count_tokens_in_file(root.content[i]).count > 0

\* C10: when process_directory returns, the files it visited that have a
\* record are exactly those with a strictly positive File Counter result,
\* each with one record; len(files) = total_files, the records' tokens sum to
\* total_tokens, and each bucket counts only files with a positive result.
C10_RecordIffPositive ==
    WalkReturned =>
        LET r == WalkReport
            recs == r.files
        IN /\ \A i \in Visited :
                Positive(i) <=> \E k \in 1..Len(recs) : recs[k].path = i
           /\ \A k \in 1..Len(recs) :
                /\ recs[k].path \in Visited
                /\ recs[k].tokens = count_tokens_in_file(root.content[recs[k].path]).count
                /\ \A j \in 1..Len(recs) : recs[j].path = recs[k].path => j = k
           /\ Len(recs) = r.total_files
           /\ Sum([k \in 1..Len(recs) |-> recs[k].tokens], 1..Len(recs)) = r.total_tokens
           /\ \A ext \in FourBuckets :
                r.by_extension[ext].files =
                    Cardinality({i \in Visited : Positive(i) /\ root.content[i].ext = ext})

\* C10 witness: an undecodable file was visited before a countable one, and
\* the report holds a record for the latter only.
C10_Witness ==
    /\ pc = "pd_done"
    /\ Len(root.content) = 2
    /\ root.content[1] = File(".go", "UnicodeDecodeError", 0)
    /\ root.content[2] = File(".go", "ok", 1)
    /\ Len(results.files) = 1
    /\ results.files[1].path = 2

\* C11: successful_repositories_processed is the number of finished
\* repositories whose report carries no error field (fetch and scan succeeded
\* and the detail file was saved); it never exceeds
\* total_repositories_configured, and a repository whose processing raised is
\* not counted, whatever the exception's message.
C11_SuccessfulCountsNoErrorReports ==
    meta_index_data # None =>
        LET s == meta_index_data.summary IN
        /\ s.successful_repositories_processed = Cardinality(NoErrorReports)
        /\ s.successful_repositories_processed <= s.total_repositories_configured

====
